---- MODULE Spec2Model ----
(***************************************************************************)
(* Model of lokomat_fes/nidaq/devices.py: class NiDaqGeneric.              *)
(*                                                                         *)
(* Two threads of control act on one controller object:                    *)
(*   - the caller's thread (pc) runs the public methods start_recording,   *)
(*     stop_recording, dispose, register_to_*, unregister_to_* and the     *)
(*     data accessor;                                                      *)
(*   - the driver's delivery thread (hpc) runs the handler registered in   *)
(*     _setup_task, i.e. _data_has_arrived, once per block.                *)
(* Every method is cut at the points where it reads or writes a field of   *)
(* the controller, so that the two threads interleave as they do under the *)
(* interpreter.  Observer callbacks are arbitrary user code: an invocation *)
(* nondeterministically returns, raises, or registers / unregisters a      *)
(* callback of the event kind being notified.                              *)
(*                                                                         *)
(* Times are integers in units of 1/Resolution second.                     *)
(*                                                                         *)
(* Spec is the controller of one valid configuration with all its          *)
(* operations; SpecTime ranges over the configurations and store offsets   *)
(* the constructor takes, for a controller without observers; SpecData     *)
(* follows a caller that keeps what the data accessor returned.            *)
(***************************************************************************)
EXTENDS Integers, Sequences, FiniteSets, TLC

\* ---- bounds of the model ------------------------------------------------
MaxCb == 2          \* number of distinct callback identities
MaxBlocks == 2      \* number of blocks the hardware delivers in one run
MaxRegOps == 2      \* number of register/unregister operations in one run
NumStores == 3      \* number of NiDaqData objects alive at the same time
MaxClose == 2       \* closeCalls counts up to MaxClose

\* ---- representation of real-valued seconds --------------------------------
Resolution == 4
FrameRates == {2}
Periods == {Resolution}

\* configurations and store offsets the time reconstruction is checked over
FrameRatesT == {1, 2}
PeriodsT == 1..6
T0Offsets == {0, 1}

Kinds == {"start", "data", "stop"}
CbIds == 1..MaxCb
StoreIds == 1..NumStores
Hole == 0
None == [none |-> TRUE]

VARIABLES
    frame_rate,            \* self._frame_rate
    time_between_samples,  \* self._time_between_samples (in 1/Resolution s)
    store_t0_offset,       \* the t0_offset a NiDaqData is constructed with
    is_recording,          \* self._is_recording
    task,                  \* self._task: "open" or "none" (None)
    data,                  \* self._data: reference to a NiDaqData object
    callbacks,             \* the three dicts id(callback) -> callback, by kind
    heap,                  \* the NiDaqData objects, by reference
    hwRunning,             \* the HardwareTask is started (delivers blocks)
    closeCalls,            \* number of calls of HardwareTask.close
    lastStart,             \* outcome of the last HardwareTask.start: "none", "ok", "failed"
    delivered,             \* number of blocks the hardware has delivered
    pc, iter,              \* caller's thread: position, dict iterator
    hpc, hiter, hlocal,    \* delivery thread: position, dict iterator, locals
    held,                  \* reference a stop observer kept from its argument, followed
                           \* for as long as the controller can reach the object
    regOps,                \* register/unregister operations done so far
    fresh,                 \* number of callback identities used so far
    trace,                 \* the caller's current or last call: its name, then its effects
    note, hnote,           \* the notification in progress or just made, per thread
    disposed,              \* a dispose() has returned normally
    got,                   \* reference the caller last obtained from the data accessor
    lastEvent              \* the last start or stop notification the watched observer got

vars == <<frame_rate, time_between_samples, store_t0_offset, is_recording, task, data, callbacks,
          heap, hwRunning, closeCalls, lastStart, delivered, pc, iter, hpc, hiter,
          hlocal, held, regOps, fresh, trace, note, hnote, disposed, got, lastEvent>>

cfgVars == <<frame_rate, time_between_samples, store_t0_offset>>
callerVars == <<pc, iter, trace, note>>
hwThreadVars == <<hpc, hiter, hlocal, hnote, delivered>>

\* ---- dict[Any, Callable]: insertion-ordered entries, deletion leaves a hole
Used(d) == Cardinality({i \in DOMAIN d : d[i] # Hole})
Has(d, k) == \E i \in DOMAIN d : d[i] = k
Keys(d) == SelectSeq(d, LAMBDA k : k # Hole)

\* d[id(callback)] = callback
DictSet(d, k) == IF Has(d, k) THEN d ELSE Append(d, k)

\* a del that leaves the entry in place
DictDel_keep(d, k) == d

\* if id(callback) in d: del d[id(callback)]
DictDel(d, k) == [i \in DOMAIN d |-> IF d[i] = k THEN Hole ELSE d[i]]

\* iter(d.keys())
IterNew(d) == [pos |-> 1, used |-> Used(d), len |-> Used(d)]

\* next(it) on d.keys(): "error" (RuntimeError), "stop" (StopIteration) or a key
NextLive(d, p) ==
    IF \E i \in p..Len(d) : d[i] # Hole
    THEN CHOOSE i \in p..Len(d) : d[i] # Hole /\ \A j \in p..(i - 1) : d[j] = Hole
    ELSE 0

IterNext(d, it) ==
    LET i == NextLive(d, it.pos) IN
    IF Used(d) # it.used THEN [status |-> "error", key |-> Hole, it |-> it]
    ELSE IF i = 0 THEN [status |-> "stop", key |-> Hole, it |-> it]
    ELSE IF it.len = 0 THEN [status |-> "error", key |-> Hole, it |-> it]
    ELSE [status |-> "key", key |-> d[i],
          it |-> [pos |-> i + 1, used |-> it.used, len |-> it.len - 1]]

NoIter == [pos |-> 0, used |-> 0, len |-> 0]

\* ---- NiDaqData ----------------------------------------------------------
DefaultT0Offset == 0

\* NiDaqData()
NiDaqData == [blocks |-> <<>>, t0_offset |-> store_t0_offset]

\* store.add(t, data)
Add(store, t, d) == [store EXCEPT !.blocks = Append(@, [t |-> t, d |-> d])]

\* store.sample_block(index=-1, unsafe=True): (None, None) on an empty store
SampleBlockLast(store) ==
    IF store.blocks = <<>> THEN None ELSE store.blocks[Len(store.blocks)]

\* store.copy: a full clone, an object of its own
Copy(store) == store

\* a reference no live holder uses
Alloc(live) == CHOOSE i \in StoreIds : i \notin live /\ \A j \in StoreIds : j \notin live => i <= j

\* objects no holder references are collected
Collect(h, live) == [i \in StoreIds |-> IF i \in live THEN h[i] ELSE NiDaqData]

\* ---- time reconstruction (lines 128-134) ----------------------------------
\* dt property: 1 / frame_rate
Dt(fr) == Resolution \div fr

\* line 25: int(self._time_between_samples * self._frame_rate)
SamplesPerBlock(fr, tbs) == (tbs * fr) \div Resolution

\* int(frame_rate * time_between_samples)
NFrames(fr, tbs) == (fr * tbs) \div Resolution

\* np.linspace(start, stop, num)
LinSpace(start, stop, num) ==
    [i \in 1..num |-> IF num = 1 THEN start
                      ELSE start + ((i - 1) * (stop - start)) \div (num - 1)]

\* t0 and t of lines 133-134
BlockTime(prev, offset, fr, tbs) ==
    LET t0 == IF prev = None THEN 0 ELSE prev.t[Len(prev.t)] + Dt(fr) - offset
    IN LinSpace(t0, t0 + tbs - Dt(fr), NFrames(fr, tbs))

\* ---- observer callbacks ---------------------------------------------------
Behaviours ==
    {[op |-> "nop", cb |-> 0], [op |-> "raise", cb |-> 0]}
    \cup {[op |-> o, cb |-> c] : o \in {"register", "unregister"}, c \in CbIds}

Mutates(b) == b.op \in {"register", "unregister"}

ApplyBehaviour(d, b) ==
    IF b.op = "register" THEN DictSet(d, b.cb)
    ELSE IF b.op = "unregister" THEN DictDel(d, b.cb)
    ELSE d

\* the locals of a handler in flight, once self._data has been replaced under
\* it: stale marks that the store line 131 read is not self._data any more
Stale(l) == IF l = None THEN l ELSE [l EXCEPT !.stale = TRUE]

NoNote == [kind |-> "none", atStart |-> <<>>, invoked |-> <<>>, done |-> FALSE,
           error |-> "none"]

\* lines 26-38: the controller as __init__ leaves it
Constructed ==
    /\ is_recording = FALSE
    /\ task = "open"
    /\ data = 1
    /\ callbacks = [k \in Kinds |-> <<>>]
    /\ heap = [i \in StoreIds |-> NiDaqData]
    /\ hwRunning = FALSE
    /\ closeCalls = 0
    /\ lastStart = "none"
    /\ delivered = 0
    /\ pc = "idle" /\ iter = NoIter
    /\ hpc = "idle" /\ hiter = NoIter /\ hlocal = None
    /\ held = 0
    /\ regOps = 0
    /\ fresh = 0
    /\ trace = <<>>
    /\ note = NoNote /\ hnote = NoNote
    /\ disposed = FALSE
    /\ got = 0
    /\ lastEvent = "none"

Init ==
    /\ frame_rate \in FrameRates
    /\ time_between_samples \in Periods
    /\ store_t0_offset = DefaultT0Offset
    /\ Constructed

\* ---- the caller's thread ---------------------------------------------------
\* the public method on the caller's stack
Call == IF trace = <<>> THEN "none" ELSE trace[1]

\* an exception leaves the method (and dispose, when it is the caller)
Raise(error) ==
    /\ pc' = "return" /\ iter' = NoIter
    /\ trace' = Append(trace, error)

\* the method hands control back to the caller, normally or with the exception
Return ==
    /\ pc = "return"
    /\ pc' = "idle" /\ iter' = NoIter /\ trace' = <<>> /\ note' = NoNote
    /\ UNCHANGED <<cfgVars, is_recording, task, data, callbacks, heap, hwRunning,
                   closeCalls, lastStart, hwThreadVars, held, regOps, fresh, disposed, got, lastEvent>>

otherVars == <<cfgVars, is_recording, task, data, heap, hwRunning, closeCalls,
               lastStart, hwThreadVars, held, disposed, got>>

\* the observer whose start and stop notifications are followed: lastEvent is
\* the kind of the last one it got since its registrations last changed
Watched == 1

\* callback identities are interchangeable: an identity that has not been used
\* so far is the least such one
Known(cb) == cb <= fresh + 1

Max(a, b) == IF a >= b THEN a ELSE b

\* register_to_<kind>(callback), lines 55-57, 64-66, 73-75
Register(kind, cb) ==
    /\ pc = "idle" /\ regOps < MaxRegOps /\ Known(cb)
    /\ callbacks' = [callbacks EXCEPT ![kind] = DictSet(@, cb)]
    /\ regOps' = regOps + 1
    /\ fresh' = Max(fresh, cb)
    /\ lastEvent' = IF cb = Watched /\ kind \in {"start", "stop"} THEN "none" ELSE lastEvent
    /\ trace' = <<"register", "set", kind, cb>>
    /\ pc' = "return"
    /\ UNCHANGED <<otherVars, iter, note>>

\* unregister_to_<kind>(callback), lines 59-62, 68-71, 77-80
Unregister(kind, cb) ==
    /\ pc = "idle" /\ regOps < MaxRegOps /\ Known(cb)
    /\ callbacks' = [callbacks EXCEPT
                        ![kind] = IF Has(@, cb) THEN DictDel(@, cb) ELSE @]
    /\ regOps' = regOps + 1
    /\ fresh' = Max(fresh, cb)
    /\ lastEvent' = IF cb = Watched /\ kind \in {"start", "stop"} THEN "none" ELSE lastEvent
    /\ trace' = <<"unregister", IF Has(callbacks[kind], cb) THEN "removed" ELSE "absent",
                  kind, cb>>
    /\ pc' = "return"
    /\ UNCHANGED <<otherVars, iter, note>>

register_to_start_recording == pc = "idle" /\ \E cb \in CbIds : Register("start", cb)
unregister_to_start_recording == pc = "idle" /\ \E cb \in CbIds : Unregister("start", cb)
register_to_data_ready == pc = "idle" /\ \E cb \in CbIds : Register("data", cb)
unregister_to_data_ready == pc = "idle" /\ \E cb \in CbIds : Unregister("data", cb)
register_to_stop_recording == pc = "idle" /\ \E cb \in CbIds : Register("stop", cb)
unregister_to_stop_recording == pc = "idle" /\ \E cb \in CbIds : Unregister("stop", cb)

\* start_recording without the guard of lines 84-85
start_recording_unguarded ==
    /\ pc = "idle"
    /\ pc' = "start_notify"
    /\ trace' = <<"start", "notify">>
    /\ iter' = IterNew(callbacks["start"])
    /\ note' = [kind |-> "start", atStart |-> Keys(callbacks["start"]),
                invoked |-> <<>>, done |-> FALSE, error |-> "none"]
    /\ UNCHANGED <<otherVars, callbacks, regOps, fresh, lastEvent>>

\* start_recording with _reset_data called before the callbacks are notified
start_recording_reset_first ==
    /\ pc = "idle"
    /\ IF is_recording
       THEN /\ trace' = <<"start", "AlreadyRecording">>
            /\ pc' = "return"
            /\ UNCHANGED <<iter, note, data, heap, held, hlocal>>
       ELSE /\ pc' = "start_notify"
            /\ trace' = <<"start", "notify">>
            /\ iter' = IterNew(callbacks["start"])
            /\ note' = [kind |-> "start", atStart |-> Keys(callbacks["start"]),
                        invoked |-> <<>>, done |-> FALSE, error |-> "none"]
            /\ LET live == {held, got} \ {0, data}
                   new == Alloc(live)
               IN /\ data' = new
                  /\ held' = IF held = data THEN 0 ELSE held
                  /\ heap' = Collect([heap EXCEPT ![new] = NiDaqData], live \cup {new})
                  /\ hlocal' = Stale(hlocal)
    /\ UNCHANGED <<cfgVars, is_recording, task, hwRunning, closeCalls, lastStart,
                   hpc, hiter, hnote, delivered, disposed, got, lastEvent, callbacks, regOps, fresh>>

\* start_recording, lines 82-87: the guard, and the start of the for loop
start_recording ==
    /\ pc = "idle"
    /\ IF is_recording
       THEN /\ trace' = <<"start", "AlreadyRecording">>
            /\ pc' = "return"
            /\ UNCHANGED <<iter, note>>
       ELSE /\ pc' = "start_notify"
            /\ trace' = <<"start", "notify">>
            /\ iter' = IterNew(callbacks["start"])
            /\ note' = [kind |-> "start", atStart |-> Keys(callbacks["start"]),
                        invoked |-> <<>>, done |-> FALSE, error |-> "none"]
    /\ UNCHANGED <<otherVars, callbacks, regOps, fresh, lastEvent>>

\* one turn of a for loop over a registry on the caller's thread:
\* lines 87-88 (kind "start", then goes to after) and 100-101 (kind "stop")
NotifyStep(kind, after) ==
    LET r == IterNext(callbacks[kind], iter) IN
    /\ IF r.status = "error"
       THEN /\ Raise("RuntimeError")
            /\ note' = [note EXCEPT !.done = TRUE, !.error = "RuntimeError"]
            /\ UNCHANGED <<callbacks, regOps, fresh, held, lastEvent>>
       ELSE IF r.status = "stop"
       THEN /\ pc' = after
            /\ note' = [note EXCEPT !.done = TRUE]
            /\ UNCHANGED <<iter, trace, callbacks, regOps, fresh, held, lastEvent>>
       ELSE \E b \in Behaviours :
            /\ Mutates(b) => (regOps < MaxRegOps /\ Known(b.cb))
            /\ callbacks' = [callbacks EXCEPT ![kind] = ApplyBehaviour(@, b)]
            /\ regOps' = IF Mutates(b) THEN regOps + 1 ELSE regOps
            /\ fresh' = Max(fresh, b.cb)
            /\ held' = IF kind = "stop" THEN data ELSE held
            /\ lastEvent' = IF Mutates(b) /\ b.cb = Watched THEN "none"
                            ELSE IF r.key = Watched THEN kind
                            ELSE lastEvent
            /\ IF b.op = "raise"
               THEN /\ Raise("CallbackError")
                    /\ note' = [note EXCEPT !.invoked = Append(@, r.key),
                                             !.done = TRUE, !.error = "CallbackError"]
               ELSE /\ iter' = r.it
                    /\ note' = [note EXCEPT !.invoked = Append(@, r.key)]
                    /\ UNCHANGED <<pc, trace>>
    /\ UNCHANGED <<cfgVars, is_recording, task, data, heap, hwRunning, closeCalls,
                   lastStart, hwThreadVars, disposed, got>>

StartNotify == pc = "start_notify" /\ NotifyStep("start", "start_reset")

\* _reset_data that also empties the callback registries
ResetData_clear_callbacks ==
    /\ pc = "start_reset"
    /\ LET live == {held, got} \ {0, data}
           new == Alloc(live)
       IN /\ data' = new
          /\ held' = IF held = data THEN 0 ELSE held
          /\ heap' = Collect([heap EXCEPT ![new] = NiDaqData], live \cup {new})
    /\ hlocal' = Stale(hlocal)
    /\ callbacks' = [k \in Kinds |-> <<>>]
    /\ pc' = "start_task"
    /\ trace' = Append(trace, "reset")
    /\ UNCHANGED <<cfgVars, is_recording, task, hwRunning, closeCalls,
                   lastStart, iter, note, hpc, hiter, hnote, delivered, regOps, fresh,
                   disposed, got, lastEvent>>

\* _reset_data, lines 90 and 118-120
ResetData ==
    /\ pc = "start_reset"
    /\ LET live == {held, got} \ {0, data}
           new == Alloc(live)
       IN /\ data' = new
          /\ held' = IF held = data THEN 0 ELSE held
          /\ heap' = Collect([heap EXCEPT ![new] = NiDaqData], live \cup {new})
    /\ hlocal' = Stale(hlocal)
    /\ pc' = "start_task"
    /\ trace' = Append(trace, "reset")
    /\ UNCHANGED <<cfgVars, is_recording, task, callbacks, hwRunning, closeCalls,
                   lastStart, iter, note, hpc, hiter, hnote, delivered, regOps, fresh,
                   disposed, got, lastEvent>>

\* _start_task with the failure of self._task.start() swallowed
StartTask_swallow ==
    /\ pc = "start_task"
    /\ \/ /\ task = "open"
          /\ hwRunning' = TRUE /\ lastStart' = "ok"
          /\ trace' = Append(trace, "hw_start")
       \/ /\ lastStart' = "failed"
          /\ trace' = Append(trace, "hw_start")
          /\ UNCHANGED hwRunning
    /\ pc' = "start_set"
    /\ UNCHANGED <<cfgVars, is_recording, task, data, callbacks, heap, closeCalls,
                   iter, note, hwThreadVars, held, regOps, fresh, disposed, got, lastEvent>>

\* _start_task, lines 91 and 167-169: self._task.start() succeeds or raises
StartTask ==
    /\ pc = "start_task"
    /\ \/ /\ task = "open"
          /\ hwRunning' = TRUE /\ lastStart' = "ok"
          /\ pc' = "start_set"
          /\ trace' = Append(trace, "hw_start")
          /\ UNCHANGED iter
       \/ /\ lastStart' = "failed"
          /\ Raise("HardwareFailure")
          /\ UNCHANGED hwRunning
    /\ UNCHANGED <<cfgVars, is_recording, task, data, callbacks, heap, closeCalls,
                   note, hwThreadVars, held, regOps, fresh, disposed, got, lastEvent>>

\* line 92
StartSet ==
    /\ pc = "start_set"
    /\ is_recording' = TRUE
    /\ pc' = "return"
    /\ trace' = Append(trace, "set")
    /\ UNCHANGED <<cfgVars, task, data, callbacks, heap, hwRunning, closeCalls,
                   lastStart, iter, note, hwThreadVars, held, regOps, fresh, disposed, got, lastEvent>>

\* stop_recording without the guard of lines 96-98
StopEnter_unguarded(op) ==
    /\ pc = "idle"
    /\ pc' = "stop_notify"
    /\ trace' = <<op, "notify">>
    /\ iter' = IterNew(callbacks["stop"])
    /\ note' = [kind |-> "stop", atStart |-> Keys(callbacks["stop"]),
                invoked |-> <<>>, done |-> FALSE, error |-> "none"]
    /\ UNCHANGED <<otherVars, callbacks, regOps, fresh, lastEvent>>

\* stop_recording with the hardware task stopped before the callbacks are notified
StopEnter_stop_first(op) ==
    /\ pc = "idle"
    /\ IF ~is_recording
       THEN /\ pc' = IF op = "dispose" THEN "dispose_close" ELSE "return"
            /\ trace' = <<op, "noop">>
            /\ UNCHANGED <<iter, note, hwRunning>>
       ELSE /\ pc' = "stop_notify"
            /\ trace' = <<op, "notify">>
            /\ hwRunning' = FALSE
            /\ iter' = IterNew(callbacks["stop"])
            /\ note' = [kind |-> "stop", atStart |-> Keys(callbacks["stop"]),
                        invoked |-> <<>>, done |-> FALSE, error |-> "none"]
    /\ UNCHANGED <<cfgVars, is_recording, task, data, heap, closeCalls, lastStart,
                   hwThreadVars, held, disposed, got, lastEvent, callbacks, regOps, fresh>>

\* stop_recording, lines 94-100, entered from the caller (op "stop") or from
\* dispose, line 113 (op "dispose")
StopEnter(op) ==
    /\ pc = "idle"
    /\ IF ~is_recording
       THEN /\ pc' = IF op = "dispose" THEN "dispose_close" ELSE "return"
            /\ trace' = <<op, "noop">>
            /\ UNCHANGED <<iter, note>>
       ELSE /\ pc' = "stop_notify"
            /\ trace' = <<op, "notify">>
            /\ iter' = IterNew(callbacks["stop"])
            /\ note' = [kind |-> "stop", atStart |-> Keys(callbacks["stop"]),
                        invoked |-> <<>>, done |-> FALSE, error |-> "none"]
    /\ UNCHANGED <<otherVars, callbacks, regOps, fresh, lastEvent>>

stop_recording == pc = "idle" /\ StopEnter("stop")

dispose == pc = "idle" /\ StopEnter("dispose")

StopNotify == pc = "stop_notify" /\ NotifyStep("stop", "stop_task")

\* _stop_task, lines 103 and 171-172: self._task.stop() succeeds or raises
StopTask ==
    /\ pc = "stop_task"
    /\ \/ /\ task = "open"
          /\ hwRunning' = FALSE
          /\ pc' = "stop_set"
          /\ trace' = Append(trace, "hw_stop")
          /\ UNCHANGED iter
       \/ /\ Raise("HardwareFailure")
          /\ UNCHANGED hwRunning
    /\ UNCHANGED <<cfgVars, is_recording, task, data, callbacks, heap, closeCalls,
                   lastStart, note, hwThreadVars, held, regOps, fresh, disposed, got, lastEvent>>

\* line 104, then the return to the caller or to dispose
StopSet ==
    /\ pc = "stop_set"
    /\ is_recording' = FALSE
    /\ pc' = IF Call = "dispose" THEN "dispose_close" ELSE "return"
    /\ trace' = Append(trace, "set")
    /\ UNCHANGED <<cfgVars, task, data, callbacks, heap, hwRunning, closeCalls,
                   lastStart, iter, note, hwThreadVars, held, regOps, fresh, disposed, got, lastEvent>>

\* dispose without line 116: the closed task is not forgotten
DisposeClose_keep_task ==
    /\ pc = "dispose_close"
    /\ IF task # "none"
       THEN /\ closeCalls' = IF closeCalls < MaxClose THEN closeCalls + 1 ELSE closeCalls
            /\ hwRunning' = FALSE
            /\ trace' = Append(trace, "close")
       ELSE /\ trace' = Append(trace, "released")
            /\ UNCHANGED <<closeCalls, hwRunning>>
    /\ disposed' = TRUE
    /\ pc' = "return"
    /\ UNCHANGED <<cfgVars, is_recording, task, data, callbacks, heap, lastStart, iter,
                   note, hwThreadVars, held, regOps, fresh, got, lastEvent>>

\* dispose, lines 114-116
DisposeClose ==
    /\ pc = "dispose_close"
    /\ IF task # "none"
       THEN /\ closeCalls' = IF closeCalls < MaxClose THEN closeCalls + 1 ELSE closeCalls
            /\ hwRunning' = FALSE
            /\ task' = "none"
            /\ trace' = Append(trace, "close")
       ELSE /\ trace' = Append(trace, "released")
            /\ UNCHANGED <<closeCalls, hwRunning, task>>
    /\ disposed' = TRUE
    /\ pc' = "return"
    /\ UNCHANGED <<cfgVars, is_recording, data, callbacks, heap, lastStart, iter,
                   note, hwThreadVars, held, regOps, fresh, got, lastEvent>>

\* the data accessor returning self._data itself
data_accessor_no_copy ==
    /\ pc = "idle"
    /\ got' = data
    /\ trace' = <<"data", "copy">>
    /\ pc' = "return"
    /\ UNCHANGED <<cfgVars, is_recording, task, data, callbacks, heap, hwRunning,
                   closeCalls, lastStart, iter, note, hwThreadVars, held, regOps,
                   fresh, disposed, lastEvent>>

\* the data accessor, lines 106-109; the caller keeps what it returns (and
\* lets go of what it got before), or uses it on the spot and drops it
DataAccess(keep) ==
    /\ pc = "idle"
    /\ LET live == ({data, held} \cup (IF keep THEN {} ELSE {got})) \ {0}
           new == Alloc(live)
           copied == [heap EXCEPT ![new] = Copy(heap[data])]
       IN IF keep
          THEN got' = new /\ heap' = Collect(copied, live \cup {new})
          ELSE got' = got /\ heap' = Collect(copied, live)
    /\ trace' = <<"data", "copy">>
    /\ pc' = "return"
    /\ UNCHANGED <<cfgVars, is_recording, task, data, callbacks, hwRunning,
                   closeCalls, lastStart, iter, note, hwThreadVars, held, regOps,
                   fresh, disposed, lastEvent>>

data_accessor == pc = "idle" /\ DataAccess(TRUE)

data_read == pc = "idle" /\ DataAccess(FALSE)

\* a stop observer changes the object it was handed (it adds a block of its own)
ObserverBlock == [t |-> <<0>>, d |-> 0]

ObserverMutates ==
    /\ pc = "idle" /\ held # 0
    /\ \A i \in DOMAIN heap[held].blocks : heap[held].blocks[i] # ObserverBlock
    /\ heap' = [heap EXCEPT ![held] = Add(@, ObserverBlock.t, ObserverBlock.d)]
    /\ UNCHANGED <<cfgVars, is_recording, task, data, callbacks, hwRunning,
                   closeCalls, lastStart, callerVars, hwThreadVars, held, regOps, fresh,
                   disposed, got, lastEvent>>

\* ---- the delivery thread: the handler of _setup_task, lines 156-161 --------
\* the hardware hands over a block: task.read, then lines 128-134
BlockArrives ==
    /\ hpc = "idle" /\ hwRunning /\ task = "open" /\ delivered < MaxBlocks
    /\ delivered' = delivered + 1
    /\ LET prev == SampleBlockLast(heap[data]) IN
       IF prev # None /\ prev.t = <<>>
       THEN \* prev_t[-1] of an empty time vector: IndexError leaves the handler
            /\ hpc' = "h_return"
            /\ hnote' = [NoNote EXCEPT !.error = "IndexError"]
            /\ UNCHANGED hlocal
       ELSE /\ hlocal' = [t |-> BlockTime(prev, heap[data].t0_offset,
                                         frame_rate, time_between_samples),
                          d |-> delivered + 1,
                          block |-> None,
                          stale |-> FALSE]
            /\ hpc' = "h_add"
            /\ UNCHANGED hnote
    /\ UNCHANGED <<cfgVars, is_recording, task, data, callbacks, heap, hwRunning,
                   closeCalls, lastStart, callerVars, hiter, held, regOps, fresh,
                   disposed, got, lastEvent>>

\* line 136
DataAdd ==
    /\ hpc = "h_add"
    /\ heap' = [heap EXCEPT ![data] = Add(@, hlocal.t, hlocal.d)]
    /\ hpc' = "h_ready"
    /\ UNCHANGED <<cfgVars, is_recording, task, data, callbacks, hwRunning,
                   closeCalls, lastStart, callerVars, hiter, hlocal, hnote,
                   delivered, held, regOps, fresh, disposed, got, lastEvent>>

\* lines 138-140: the test of the registry, the read of the last block and the
\* start of the for loop; line 143 when no callback is registered
DataReady ==
    /\ hpc = "h_ready"
    /\ IF Used(callbacks["data"]) = 0
       THEN /\ hpc' = "h_return"
            /\ UNCHANGED <<hiter, hnote, hlocal>>
       ELSE /\ hlocal' = [hlocal EXCEPT !.block = SampleBlockLast(heap[data])]
            /\ hiter' = IterNew(callbacks["data"])
            /\ hnote' = [kind |-> "data", atStart |-> Keys(callbacks["data"]),
                         invoked |-> <<>>, done |-> FALSE, error |-> "none"]
            /\ hpc' = "h_notify"
    /\ UNCHANGED <<cfgVars, is_recording, task, data, callbacks, heap, hwRunning,
                   closeCalls, lastStart, callerVars, delivered, held, regOps, fresh,
                   disposed, got, lastEvent>>

\* one turn of the for loop of lines 140-141; line 143 at its end
DataNotify ==
    /\ hpc = "h_notify"
    /\ LET r == IterNext(callbacks["data"], hiter) IN
       IF r.status \in {"error", "stop"}
       THEN /\ hpc' = "h_return" /\ hiter' = NoIter
            /\ hnote' = [hnote EXCEPT !.done = TRUE,
                          !.error = IF r.status = "error" THEN "RuntimeError" ELSE "none"]
            /\ UNCHANGED hlocal
            /\ UNCHANGED <<callbacks, regOps, fresh>>
       ELSE \E b \in Behaviours :
            /\ Mutates(b) => (regOps < MaxRegOps /\ Known(b.cb))
            /\ callbacks' = [callbacks EXCEPT !["data"] = ApplyBehaviour(@, b)]
            /\ regOps' = IF Mutates(b) THEN regOps + 1 ELSE regOps
            /\ fresh' = Max(fresh, b.cb)
            /\ IF b.op = "raise"
               THEN /\ hpc' = "h_return" /\ hiter' = NoIter
                    /\ hnote' = [hnote EXCEPT !.invoked = Append(@, r.key),
                                               !.done = TRUE, !.error = "CallbackError"]
                    /\ UNCHANGED hlocal
               ELSE /\ hiter' = r.it
                    /\ hnote' = [hnote EXCEPT !.invoked = Append(@, r.key)]
                    /\ UNCHANGED <<hpc, hlocal>>
    /\ UNCHANGED <<cfgVars, is_recording, task, data, heap, hwRunning, closeCalls,
                   lastStart, callerVars, delivered, held, disposed, got, lastEvent>>

\* line 143, or the exception leaves the handler
HandlerReturn ==
    /\ hpc = "h_return"
    /\ hpc' = "idle" /\ hiter' = NoIter /\ hlocal' = None /\ hnote' = NoNote
    /\ UNCHANGED <<cfgVars, is_recording, task, data, callbacks, heap, hwRunning,
                   closeCalls, lastStart, callerVars, delivered, held, regOps, fresh,
                   disposed, got, lastEvent>>

Next ==
    \/ register_to_start_recording
    \/ unregister_to_start_recording
    \/ register_to_data_ready
    \/ unregister_to_data_ready
    \/ register_to_stop_recording
    \/ unregister_to_stop_recording
    \/ start_recording
    \/ StartNotify
    \/ ResetData
    \/ StartTask
    \/ StartSet
    \/ stop_recording
    \/ dispose
    \/ StopNotify
    \/ StopTask
    \/ StopSet
    \/ DisposeClose
    \/ ObserverMutates
    \/ data_read
    \/ BlockArrives
    \/ DataAdd
    \/ DataReady
    \/ DataNotify
    \/ HandlerReturn
    \/ Return

Spec == Init /\ [][Next]_vars

\* ---- the time reconstruction over configurations ------------------------------
\* __init__, lines 21-38, for any (frame_rate, time_between_samples) it is given
InitTime ==
    /\ frame_rate \in FrameRatesT
    /\ time_between_samples \in PeriodsT
    /\ store_t0_offset \in T0Offsets
    /\ Constructed

\* sessions and block arrivals of a controller without observers
NextTime ==
    \/ start_recording
    \/ StartNotify
    \/ ResetData
    \/ StartTask
    \/ StartSet
    \/ stop_recording
    \/ StopNotify
    \/ StopTask
    \/ StopSet
    \/ BlockArrives
    \/ DataAdd
    \/ DataReady
    \/ HandlerReturn
    \/ Return

SpecTime == InitTime /\ [][NextTime]_vars

\* ---- the data accessor --------------------------------------------------------
\* sessions, block arrivals, stop observers that keep and change the store they
\* were handed, and a caller that reads the data
NextData ==
    \/ data_accessor
    \/ register_to_stop_recording
    \/ ObserverMutates
    \/ NextTime

SpecData == Init /\ [][NextData]_vars

\* ---- properties --------------------------------------------------------------
Last(sq) == sq[Len(sq)]

IsPrefix(a, b) == Len(a) <= Len(b) /\ \A i \in DOMAIN a : a[i] = b[i]

Count(sq, x) == Cardinality({i \in DOMAIN sq : sq[i] = x})

\* the step is a call of the public method op by the caller
Calls(op) == pc = "idle" /\ trace' # <<>> /\ trace'[1] = op

\* the fields of the controller, the hardware and the observers that a call
\* without side effects leaves alone
Effects == <<is_recording, task, data, heap, hwRunning, closeCalls, lastStart,
             callbacks, held, note, disposed, got, lastEvent>>

\* C1: start_recording() called while Recording fails with "already recording"
\* and has no side effect: no start callback is invoked, the data store is not
\* replaced or emptied, the hardware task is not started again, the state
\* stays Recording.
C1_DoubleStartRejected ==
    [][(Calls("start") /\ is_recording)
          => /\ trace' = <<"start", "AlreadyRecording">>
             /\ pc' = "return"
             /\ is_recording'
             /\ UNCHANGED Effects]_vars

C1_Witness ==
    /\ pc = "return" /\ trace = <<"start", "AlreadyRecording">>
    /\ is_recording /\ hwRunning /\ Used(callbacks["start"]) > 0

\* C2: stop_recording() called while Idle returns without error and changes
\* nothing: no stop callback is invoked, the hardware task's stop is not
\* called, the data store is unchanged, the state stays Idle.
C2_IdempotentStop ==
    [][(Calls("stop") /\ ~is_recording)
          => /\ trace' = <<"stop", "noop">>
             /\ pc' = "return"
             /\ ~is_recording'
             /\ UNCHANGED Effects]_vars

C2_Witness ==
    /\ pc = "return" /\ trace = <<"stop", "noop">>
    /\ ~is_recording /\ Used(callbacks["stop"]) > 0

\* C3: when HardwareTask.start fails inside start_recording() the failure
\* reaches the caller and the state remains Idle, so that start_recording()
\* can be attempted again; in every state, Recording implies that the most
\* recent hardware start succeeded.
C3_NoRecordingWithoutStart ==
    /\ is_recording => lastStart = "ok"
    /\ pc = "start_set" => lastStart = "ok"
    /\ (trace # <<>> /\ trace[1] = "start" /\ Last(trace) = "HardwareFailure")
         => (~is_recording /\ pc = "return" /\ lastStart = "failed")

\* the hardware start of an open task has failed, the state is Idle and a new
\* start_recording() has come to the hardware start again
C3_Witness ==
    /\ lastStart = "failed" /\ task = "open" /\ ~is_recording
    /\ pc = "start_task" /\ trace = <<"start", "notify", "reset">>

\* C4: a successful start_recording() from Idle (1) invokes every registered
\* start callback, (2) replaces the data store by an empty one, (3) starts the
\* hardware task, (4) sets the state to Recording, in this order; every start
\* callback runs while the state is Idle, the previous data is in place and
\* the hardware is not started.
C4_StartOrder ==
    /\ [](/\ (trace # <<>> /\ trace[1] = "start" /\ Last(trace) = "set")
              => /\ trace = <<"start", "notify", "reset", "hw_start", "set">>
                 /\ note.kind = "start" /\ note.done /\ note.invoked = note.atStart
                 /\ is_recording /\ hwRunning
          /\ pc = "start_notify" => (~is_recording /\ ~hwRunning)
          /\ pc = "start_task" => (~is_recording /\ ~hwRunning)
          /\ pc = "start_set" => ~is_recording)
    /\ [][pc' = "start_notify" => (data' = data /\ IsPrefix(heap[data].blocks,
                                                             heap'[data].blocks))]_vars
    /\ [][(pc = "start_reset" /\ pc' # pc)
            => (pc' = "start_task" /\ heap'[data'] = NiDaqData)]_vars

C4_Witness ==
    /\ pc = "return" /\ trace = <<"start", "notify", "reset", "hw_start", "set">>
    /\ Len(note.invoked) = 2 /\ is_recording /\ delivered > 0

\* C5: a successful stop_recording() from Recording (1) invokes every
\* registered stop callback with the accumulated data, (2) stops the hardware
\* task, (3) sets the state to Idle, in this order; every stop callback runs
\* while the state is Recording and the hardware task is running.
C5_StopOrder ==
    /\ (trace # <<>> /\ trace[1] = "stop" /\ Last(trace) = "set")
         => /\ trace = <<"stop", "notify", "hw_stop", "set">>
            /\ note.kind = "stop" /\ note.done /\ note.invoked = note.atStart
            /\ ~is_recording /\ ~hwRunning
    /\ pc = "stop_notify" => /\ is_recording /\ hwRunning
                             /\ note.invoked # <<>> => (held # 0 /\ heap[held] = heap[data])
    /\ pc = "stop_task" => (is_recording /\ hwRunning)
    /\ pc = "stop_set" => is_recording

C5_Witness ==
    /\ pc = "return" /\ trace = <<"stop", "notify", "hw_stop", "set">>
    /\ Len(note.invoked) = 2 /\ ~is_recording /\ heap[data].blocks # <<>>

\* C6: the store handed to the stop callbacks is a snapshot, not the
\* controller's own store: a block that arrives after the stop notification
\* does not change what the observer received, and a change the observer makes
\* to the object it received does not change what the data accessor returns.
C6_StopPassesSnapshot ==
    /\ [][(held # 0 /\ held' = held /\ hpc = "h_add" /\ hpc' = "h_ready")
            => heap'[held] = heap[held]]_vars
    /\ [][(held # 0 /\ held' = held /\ pc = "idle" /\ pc' = "idle" /\ hpc' = hpc
             /\ heap'[held] # heap[held])
            => heap'[data] = heap[data]]_vars

C8_ExactlyOnce ==
    \A n \in {note, hnote} :
        (n.done /\ n.error # "CallbackError") => \A i \in DOMAIN n.atStart :
                      Has(callbacks[n.kind], n.atStart[i])
                          => Count(n.invoked, n.atStart[i]) = 1

C10_NotifySnapshot ==
    (note.done /\ note.error # "CallbackError")
        => (note.error = "none" /\ note.invoked = note.atStart)

C12_ResetOnStart ==
    /\ (pc \in {"start_task", "start_set"} /\ ~hwRunning) => heap[data].blocks = <<>>
    /\ (heap[data].blocks # <<>> /\ heap[data].blocks[1].d # 0)
          => heap[data].blocks[1].t[1] = 0

\* C15: the object obtained from the data accessor is a copy: block arrivals,
\* start_recording and stop_recording after the read (and whatever else the
\* controller and its observers do) leave its contents as they were when it
\* was read, and it is not the controller's own store.
C15_DataIsolation ==
    /\ [](got # 0 => got # data)
    /\ [][Calls("data") => (got' # data' /\ heap'[got'] = heap[data]
                             /\ heap'[data] = heap[data])]_vars
    /\ [][(got # 0 /\ ~Calls("data")) => (got' = got /\ heap'[got] = heap[got])]_vars

\* a session's block, a restart and a block of the new session have come after
\* the read of a store that held one block
C15_Witness ==
    /\ got # 0 /\ Len(heap[got].blocks) = 1 /\ heap[got].blocks[1].d = 1
    /\ delivered = MaxBlocks /\ heap[data].blocks # <<>>
    /\ heap[data].blocks[1].d = MaxBlocks

\* C16: when an observer callback fails during a notification (start,
\* data-ready or stop), every other callback registered for that notification
\* is still invoked.
C16_FailureIsolation ==
    \A n \in {note, hnote} :
        (n.done /\ n.error = "CallbackError")
            => \A i \in DOMAIN n.atStart :
                  Has(callbacks[n.kind], n.atStart[i])
                      => Count(n.invoked, n.atStart[i]) >= 1

\* C17: the three callback registries are changed only by register and
\* unregister calls (the caller's, or those an observer makes while it is being
\* invoked); start_recording, stop_recording, dispose, the data accessor and
\* the block-arrival handler themselves leave them unchanged, so a registered
\* callback stays registered, session after session, until it is unregistered,
\* and every notification starts from the registry as those calls left it.
C17_CallbacksPersist ==
    /\ [][callbacks' # callbacks
            => \/ Calls("register") \/ Calls("unregister")
               \/ /\ pc \in {"start_notify", "stop_notify"}
                  /\ Len(note'.invoked) = Len(note.invoked) + 1
               \/ /\ hpc = "h_notify"
                  /\ Len(hnote'.invoked) = Len(hnote.invoked) + 1]_vars
    /\ [][(Calls("start") \/ Calls("stop") \/ Calls("dispose") \/ Calls("data")
             \/ (pc' # pc /\ pc \in {"start_reset", "start_task", "start_set", "stop_task",
                                      "stop_set", "dispose_close", "return"})
             \/ (hpc' # hpc /\ hpc \in {"idle", "h_add", "h_ready", "h_return"}))
            => callbacks' = callbacks]_vars
    /\ [][\A k \in Kinds, c \in CbIds :
            (Has(callbacks[k], c) /\ ~Has(callbacks'[k], c))
               => \/ Calls("unregister") /\ trace'[3] = k /\ trace'[4] = c
                  \/ note.kind = k /\ Len(note'.invoked) = Len(note.invoked) + 1
                  \/ hnote.kind = k /\ Len(hnote'.invoked) = Len(hnote.invoked) + 1]_vars
    /\ [](/\ (note.kind # "none" /\ note.invoked = <<>> /\ ~note.done)
               => note.atStart = Keys(callbacks[note.kind])
          /\ (note.invoked # <<>>) => note.invoked[1] = note.atStart[1])

\* the start notification of a later session has invoked a callback that was
\* registered before the first session
C17_Witness ==
    /\ pc = "start_notify" /\ Len(note.invoked) = 1
    /\ delivered > 0 /\ lastStart = "ok" /\ task = "open" /\ ~hwRunning
    /\ Used(callbacks["stop"]) > 0 /\ heap[data].blocks # <<>>

\* C18: no block is lost, duplicated or reordered: each delivered block is
\* appended, as the last block, to the store of the session it was delivered
\* in, after the blocks delivered before it, and each handler invocation
\* notifies every data-ready observer once, with the time vector and samples
\* of the block it has just appended.
C18_NoLossNoReorder ==
    /\ [][(hpc = "h_add" /\ hpc' # hpc)
            => /\ ~hlocal.stale
               /\ heap'[data].blocks
                    = Append(heap[data].blocks, [t |-> hlocal.t, d |-> hlocal.d])
               /\ \A i \in DOMAIN heap[data].blocks :
                     heap[data].blocks[i].d < hlocal.d]_vars
    /\ [][(hpc = "h_notify" /\ Len(hnote'.invoked) = Len(hnote.invoked) + 1)
            => hlocal.block = [t |-> hlocal.t, d |-> hlocal.d]]_vars
    /\ []((hnote.done /\ hnote.error = "none") => hnote.invoked = hnote.atStart)

\* C19: a block arrival is atomic with respect to start_recording,
\* stop_recording and dispose: the store the handler appends to (line 136) is
\* the store it computed the time vector from (line 131), and the block it
\* hands to the observers (line 139) is read from that same store.
C19_AtomicBlockArrival ==
    [][(hpc \in {"h_add", "h_ready"} /\ hpc' # hpc) => ~hlocal.stale]_vars

\* C20: the start and stop notifications of an observer registered to both
\* events alternate, also when the hardware start or stop fails and the call
\* is made again: a notification it gets is never of the kind of the one it
\* got before.
C20_Alternation ==
    [][(/\ pc \in {"start_notify", "stop_notify"}
        /\ Len(note'.invoked) = Len(note.invoked) + 1
        /\ Last(note'.invoked) = Watched
        /\ Has(callbacks["start"], Watched) /\ Has(callbacks["stop"], Watched)
        /\ note.kind = "start" => lastStart = "failed")
          => lastEvent # note.kind]_vars

\* C13: every block's time vector has exactly samples-per-block entries
\* (frame_rate x time_between_samples) that increase by dt and end at
\* t0 + time_between_samples - dt, for every configuration the constructor
\* accepts.
C13_BlockTimeVector ==
    \A k \in DOMAIN heap[data].blocks :
        LET t == heap[data].blocks[k].t IN
        /\ Len(t) * Resolution = frame_rate * time_between_samples
        /\ \A i \in 1..(Len(t) - 1) : t[i + 1] = t[i] + Dt(frame_rate)
        /\ t # <<>> => Last(t) = t[1] + time_between_samples - Dt(frame_rate)

\* C14: a controller exists only for a configuration whose frame_rate x
\* time_between_samples is a positive integer, and its samples-per-block is
\* exactly that product.
C14_ConstructionValidated ==
    /\ frame_rate * time_between_samples > 0
    /\ (frame_rate * time_between_samples) % Resolution = 0
    /\ SamplesPerBlock(frame_rate, time_between_samples) * Resolution
          = frame_rate * time_between_samples

TypeOK ==
    /\ is_recording \in BOOLEAN /\ hwRunning \in BOOLEAN
    /\ task \in {"open", "none"}
    /\ data \in StoreIds /\ held \in StoreIds \cup {0}
    /\ closeCalls \in 0..MaxClose
    /\ delivered \in 0..MaxBlocks
    /\ regOps \in 0..MaxRegOps /\ fresh \in 0..MaxCb
    /\ store_t0_offset \in T0Offsets
    /\ got \in StoreIds \cup {0}
    /\ lastEvent \in {"none", "start", "stop"}

====
